---- MODULE Spec2Model ----
(***************************************************************************)
(* Model of flask_marshmallow_openapi.decorators.decorate_post.post: the   *)
(* decorator factory that builds the OpenAPI Operation document of a POST  *)
(* route and hands it to FlaskPathsManager.decorate.                       *)
(*                                                                         *)
(* Python values are modelled as follows.                                  *)
(*   None                 the string None (no caller input equals it)     *)
(*   str                  a TLA+ string                                    *)
(*   dict / pydantic obj  a function whose domain is the set of keys (of   *)
(*                        fields that are set)                             *)
(*   list                 a sequence; an omitted list argument and [] are  *)
(*                        both <<>> (the code reads them as `x or []`)     *)
(***************************************************************************)
EXTENDS Integers, Sequences, FiniteSets, TLC

VARIABLES pc, args, returned, routes

vars == <<pc, args, returned, routes>>

\* ------------------------------------------------------------ bounds
\* The largest number of entries of additional_parameters and headers together.
MaxParams == 2

\* ------------------------------------------------------------ Python values
None == "None"

EmptyDict == [k \in {} |-> k]

\* Python truthiness of an optional string: None and "" are falsy.
Truthy(x) == x # None /\ x # ""

\* getattr(obj, attr, default)
GetAttr(obj, attr, default) == IF attr \in DOMAIN obj THEN obj[attr] ELSE default

Range(s) == {s[i] : i \in DOMAIN s}

UpperToLower ==
    [A |-> "a", B |-> "b", C |-> "c", D |-> "d", E |-> "e", F |-> "f", G |-> "g",
     H |-> "h", I |-> "i", J |-> "j", K |-> "k", L |-> "l", M |-> "m", N |-> "n",
     O |-> "o", P |-> "p", Q |-> "q", R |-> "r", S |-> "s", T |-> "t", U |-> "u",
     V |-> "v", W |-> "w", X |-> "x", Y |-> "y", Z |-> "z"]

\* str.lower()
RECURSIVE Lower(_)
Lower(s) ==
    IF Len(s) = 0 THEN ""
    ELSE LET c == SubSeq(s, 1, 1)
         IN  (IF c \in DOMAIN UpperToLower THEN UpperToLower[c] ELSE c)
                 \o Lower(SubSeq(s, 2, Len(s)))

\* `sub in s` on strings
Contains(sub, s) ==
    \E i \in 1..(Len(s) - Len(sub) + 1) : SubSeq(s, i, i + Len(sub) - 1) = sub

Digits == <<"0", "1", "2", "3", "4", "5", "6", "7", "8", "9">>

\* str(n) of a non-negative int
RECURSIVE Str(_)
Str(n) == IF n < 10 THEN Digits[n + 1] ELSE Str(n \div 10) \o Digits[(n % 10) + 1]

\* ------------------------------------------------------------ collaborators
\* The schema classes of the application and their Meta options (schema.opts).
\* An option a class does not declare is no attribute of its opts.
SchemaOpts ==
    [BookSchema        |-> [tags |-> <<"Books">>, url_id_field |-> "id"],
     BookCreateSchema  |-> [tags |-> <<"Books", "Admin">>, url_id_field |-> "id"],
     BookDeletedSchema |-> [tags |-> <<"Admin", "Admin">>],
     PlainSchema       |-> [url_id_field |-> ""]]

Schemas == DOMAIN SchemaOpts

\* SchemasRegistry.schema_name: the document name the registry resolved.
RegistryNames ==
    [BookSchema        |-> "Book",
     BookCreateSchema  |-> "BookCREATE",
     BookDeletedSchema |-> "BookDeleted",
     PlainSchema       |-> "Plain"]

schema_name(schema) == RegistryNames[schema]

\* SchemasRegistry.schema_ref
schema_ref(schema) == "#/components/schemas/" \o schema_name(schema)

\* FlaskPathsManager.generate_operation_id
generate_operation_id(verb, is_collection, schema) ==
    verb \o "_" \o Lower(schema_name(schema)) \o (IF is_collection THEN "_list" ELSE "")

\* Securities: the enum members, by name.
no_token == "no_token"

access_token == "access_token"

Securities == {access_token, "refresh_token", no_token}

\* Locations: the values of a parameter's "in".
header == "header"

Locations == {"path", "query", header, "cookie"}

\* ParameterObject(**data): pydantic accepts the mapping iff it has a name and
\* its "in", when given, is a Locations value.
Coercible(data) ==
    /\ "name" \in DOMAIN data
    /\ "in" \in DOMAIN data => data["in"] \in Locations

\* The structured object built from a raw mapping. obj = 0: a fresh object
\* no caller holds; caller-built objects carry their identity in obj > 0.
ParameterObject(data) ==
    [obj |-> 0, name |-> GetAttr(data, "name", None), in_ |-> GetAttr(data, "in", None)]

\* isinstance(data, dict)
IsDict(data) == "obj" \notin DOMAIN data

\* SecurityRequirementObject({name: []})
SecurityRequirementObject(name) == (name :> <<>>)

\* helpers._initial_docs(schema, with_id_in_path)
_initial_docs(schema, with_id_in_path) ==
    [parameters |->
         IF with_id_in_path
         THEN <<[obj |-> 0,
                 name |-> GetAttr(SchemaOpts[schema], "url_id_field", None),
                 in_ |-> "path"]>>
         ELSE <<>>,
     responses  |-> EmptyDict,
     security   |-> <<SecurityRequirementObject(access_token)>>,
     tags       |-> <<>>]

\* helpers._update_errors(open_api_data, errors)
_update_errors(open_api_data, errors) ==
    LET keys == {Str(c) : c \in DOMAIN errors}
        code(k) == CHOOSE c \in DOMAIN errors : Str(c) = k
    IN  [open_api_data EXCEPT !.responses =
            [k \in (DOMAIN open_api_data.responses) \cup keys |->
                IF k \in keys THEN [description |-> errors[code(k)]]
                ELSE open_api_data.responses[k]]]

\* ------------------------------------------------------------ post, step by step
\* `if not response_schema: response_schema = request_schema`
ResponseSchema(a) ==
    IF a.response_schema = None THEN a.request_schema ELSE a.response_schema

\* `if not operation_id: operation_id = generate_operation_id("post", False, ...)`
OperationId(a) ==
    IF ~Truthy(a.operation_id)
    THEN generate_operation_id("post", FALSE, ResponseSchema(a))
    ELSE a.operation_id

\* open_api_data = _initial_docs(...); open_api_data.operationId = operation_id
StepInitial(a) ==
    [operationId |-> OperationId(a)] @@ _initial_docs(a.request_schema, TRUE)

\* `if security != Securities.no_token: open_api_data.security = [...]`
StepSecurity(d, a) ==
    IF a.security # no_token
    THEN [d EXCEPT !.security = <<SecurityRequirementObject(a.security)>>]
    ELSE d

\* SuccessResponses with the "deleted" test made on the name as written.
SuccessResponsesCaseSensitive(response_schema) ==
    IF Contains("deleted", schema_name(response_schema))
    THEN ("204" :> [description |-> "Resource was deleted"])
    ELSE ("201" :>
            [content |->
                ("application/json" :>
                    [schema |-> ("$ref" :> schema_ref(response_schema))])])

\* The success response: "204" for a "deleted" schema, "201" with a body otherwise.
SuccessResponses(response_schema) ==
    IF Contains("deleted", Lower(schema_name(response_schema)))
    THEN ("204" :> [description |-> "Resource was deleted"])
    ELSE ("201" :>
            [content |->
                ("application/json" :>
                    [schema |-> ("$ref" :> schema_ref(response_schema))])])

\* StepResponses reading an omitted response_schema as "no response body".
StepResponsesNoBody(d, a) ==
    [d EXCEPT !.responses =
        IF a.response_schema = None
        THEN ("204" :> [description |-> "Resource was deleted"])
        ELSE SuccessResponses(a.response_schema)]

\* open_api_data.responses = ResponsesObject(); responses["204" | "201"] = ...
StepResponses(d, a) ==
    [d EXCEPT !.responses = SuccessResponses(ResponseSchema(a))]

\* open_api_data.requestBody = RequestBodyObject(...)
StepRequestBody(d, a) ==
    [requestBody |->
        [content |->
            ("application/json" :>
                [schema |-> ("$ref" :> schema_ref(a.request_schema))])]] @@ d

\* `if summary: open_api_data.summary = summary`
StepSummary(d, a) ==
    IF Truthy(a.summary) THEN [summary |-> a.summary] @@ d ELSE d

\* StepPathParameters with the "create" test made on the response schema.
StepPathParametersByResponse(d, a) ==
    LET url_id_field == GetAttr(SchemaOpts[a.request_schema], "url_id_field", None)
    IN  IF /\ Truthy(url_id_field)
           /\ ~Contains("create", Lower(schema_name(ResponseSchema(a))))
        THEN [d EXCEPT !.parameters[1].name = url_id_field]
        ELSE [d EXCEPT !.parameters = <<>>]

\* The path parameter policy: rename the baseline's parameter or drop them all.
StepPathParameters(d, a) ==
    LET url_id_field == GetAttr(SchemaOpts[a.request_schema], "url_id_field", None)
    IN  IF /\ Truthy(url_id_field)
           /\ ~Contains("create", Lower(schema_name(a.request_schema)))
        THEN [d EXCEPT !.parameters[1].name = url_id_field]
        ELSE [d EXCEPT !.parameters = <<>>]

\* `if isinstance(data, dict): data = ParameterObject(**data)`
Coerce(data) == IF IsDict(data) THEN ParameterObject(data) ELSE data

\* `for data in additional_parameters or []: ... parameters.append(data)`
StepAdditionalParameters(d, a) ==
    [d EXCEPT !.parameters =
        @ \o [i \in 1..Len(a.additional_parameters) |->
                Coerce(a.additional_parameters[i])]]

\* `open_api_data.parameters = [_ for _ in open_api_data.parameters if _.name]`
StepFilter(d) ==
    [d EXCEPT !.parameters = SelectSeq(@, LAMBDA p : Truthy(p.name))]

\* TagSet without the response schema's tags.
TagSetRequestOnly(a) ==
    Range(GetAttr(SchemaOpts[a.request_schema], "tags", <<>>))

\* set(request tags + response tags)
TagSet(a) ==
    Range(GetAttr(SchemaOpts[a.request_schema], "tags", <<>>)
            \o GetAttr(SchemaOpts[ResponseSchema(a)], "tags", <<>>))

\* list(set(...)): the iteration order of a set of strings is not fixed.
TagOrders(a) ==
    {t \in [1..Cardinality(TagSet(a)) -> TagSet(a)] : Range(t) = TagSet(a)}

\* open_api_data.tags = list(set(...)), in the order `tags`
StepTags(d, tags) == [d EXCEPT !.tags = tags]

\* StepErrors that leaves a code the builder already set as it is.
StepErrorsKeepExisting(d, a) ==
    [_update_errors(d, a.errors) EXCEPT !.responses =
        [k \in DOMAIN @ |-> IF k \in DOMAIN d.responses THEN d.responses[k] ELSE @[k]]]

\* _update_errors(open_api_data, errors)
StepErrors(d, a) == _update_errors(d, a.errors)

\* The caller's structured objects the header loop writes `in_` of.
HeaderObjects(a) == {h.obj : h \in {x \in Range(a.headers) : ~IsDict(x)}}

\* StepHeaders that keeps the "in" a header came with.
StepHeadersKeepIn(d, a) ==
    [d EXCEPT !.parameters =
        @ \o [i \in 1..Len(a.headers) |-> Coerce(a.headers[i])]]

\* `for header in headers or []: ... header.in_ = Locations.header; append`
\* A structured header is changed in place, so every reference to the same
\* object already in parameters shows the change.
StepHeaders(d, a) ==
    [d EXCEPT !.parameters =
        [i \in 1..Len(@) |->
            IF @[i].obj \in HeaderObjects(a) THEN [@[i] EXCEPT !.in_ = header]
            ELSE @[i]]
        \o [i \in 1..Len(a.headers) |->
                [Coerce(a.headers[i]) EXCEPT !.in_ = header]]]

\* open_api_data.dict(): plain data, object identities gone.
Dict(d) ==
    [d EXCEPT !.parameters =
        [i \in 1..Len(@) |-> [name |-> @[i].name, in_ |-> @[i].in_]]]

\* Raises with the headers' coercion errors swallowed.
RaisesAdditionalOnly(a) ==
    \E data \in Range(a.additional_parameters) : IsDict(data) /\ ~Coercible(data)

\* ParameterObject(**data) raises a ValidationError for some raw mapping.
Raises(a) ==
    \E data \in Range(a.additional_parameters) \cup Range(a.headers) :
        IsDict(data) /\ ~Coercible(data)

\* The document `post` builds, with `tags` the order list(set(...)) gave.
OpenApiData(a, tags) ==
    LET d1  == StepSecurity(StepInitial(a), a)
        d2  == StepResponses(d1, a)
        d3  == StepRequestBody(d2, a)
        d4  == StepSummary(d3, a)
        d5  == StepPathParameters(d4, a)
        d6  == StepAdditionalParameters(d5, a)
        d7  == StepFilter(d6)
        d8  == StepTags(d7, tags)
        d9  == StepErrors(d8, a)
        d10 == StepHeaders(d9, a)
    IN  Dict(d10)

\* ------------------------------------------------------------ inputs
\* Raw mappings and structured objects a caller passes as parameters.
RawIdPath == [name |-> "id", in |-> "path"]

RawEmptyName == [name |-> "", in |-> "query"]

RawNoName == [in |-> "query"]

RawXFoo == [name |-> "X-Foo"]

ObjXFoo == [obj |-> 1, name |-> "X-Foo", in_ |-> "query"]

AdditionalPool == {RawIdPath, RawEmptyName, RawNoName, ObjXFoo}

HeaderPool == {RawXFoo, RawEmptyName, RawNoName, ObjXFoo}

Lists(pool, n) == UNION {[1..k -> pool] : k \in 0..n}

ErrorMaps ==
    {EmptyDict, (201 :> "made") @@ (409 :> "title must be unique!"), (204 :> "gone")}

Args ==
    {a \in [request_schema : Schemas,
            response_schema : Schemas \cup {None},
            operation_id : {None, "create_book"},
            summary : {None, "Create a book"},
            errors : ErrorMaps,
            headers : Lists(HeaderPool, MaxParams),
            security : Securities,
            additional_parameters : Lists(AdditionalPool, MaxParams)] :
        /\ Len(a.headers) + Len(a.additional_parameters) <= MaxParams}

\* ------------------------------------------------------------ route table
NoCall == [request_schema |-> None]

Paths == {"/books"}

\* ------------------------------------------------------------ state machine
Init ==
    /\ pc = "idle"
    /\ args = NoCall
    /\ returned = <<>>
    /\ routes = EmptyDict

\* A call post(**a): the whole function body, up to its return or its raise.
Post ==
    /\ pc = "idle"
    /\ \E a \in Args :
        /\ args' = a
        /\ IF Raises(a)
           THEN pc' = "raised" /\ returned' = <<>>
           ELSE /\ pc' = "returned"
                /\ \E tags \in TagOrders(a) :
                       returned' = <<("post" :> OpenApiData(a, tags))>>
    /\ UNCHANGED routes

\* The returned functools.partial applied to the route handler:
\* FlaskPathsManager.decorate(handler, open_api_data=...) records the fragment.
Decorate(path) ==
    /\ pc = "returned"
    /\ routes' = (path :> returned[1]) @@ routes
    /\ pc' = "decorated"
    /\ UNCHANGED <<args, returned>>

Next ==
    \/ Post
    \/ \E path \in Paths : Decorate(path)

Spec == Init /\ [][Next]_vars

\* ------------------------------------------------------------ properties
\* What the schema classes above declare, written out for the properties.
DeletedNamed == {"BookDeletedSchema"}

KeepsPathId == {"BookSchema"}

DeclaredTags ==
    [BookSchema        |-> {"Books"},
     BookCreateSchema  |-> {"Books", "Admin"},
     BookDeletedSchema |-> {"Admin"},
     PlainSchema       |-> {}]

ExpectedRef ==
    [BookSchema        |-> "#/components/schemas/Book",
     BookCreateSchema  |-> "#/components/schemas/BookCREATE",
     BookDeletedSchema |-> "#/components/schemas/BookDeleted",
     PlainSchema       |-> "#/components/schemas/Plain"]

CodeKey == (201 :> "201") @@ (204 :> "204") @@ (409 :> "409")

\* post has returned its decorator.
Done == pc \in {"returned", "decorated"}

\* The finished Operation document of the call.
Doc == returned[1]["post"]

\* The response schema in effect for the call.
Effective ==
    IF args.response_schema = None THEN args.request_schema ELSE args.response_schema

Body201(schema) ==
    [content |-> ("application/json" :> [schema |-> ("$ref" :> ExpectedRef[schema])])]

\* The names of the additional_parameters that have a non-empty name.
KeptAdditionalNames ==
    LET kept == SelectSeq(args.additional_parameters, LAMBDA x : x.name # "")
    IN  [i \in 1..Len(kept) |-> kept[i].name]

HeaderNames == [i \in 1..Len(args.headers) |-> args.headers[i].name]

ParameterNames == [i \in 1..Len(Doc.parameters) |-> Doc.parameters[i].name]

\* C1: with security = no_token the finished document has no security field;
\* with any other value its security is the single requirement {name: []}.
C1_Security ==
    Done =>
        IF args.security = no_token
        THEN "security" \notin DOMAIN Doc
        ELSE Doc.security = <<(args.security :> <<>>)>>

\* C2: no parameter of the finished document has an empty or missing name.
C2_NoEmptyName ==
    Done => \A i \in 1..Len(Doc.parameters) :
                Doc.parameters[i].name \notin {"", None}

\* C3 as stated: for a "deleted" response schema the finished document has "204"
\* without a body (and "201" only if the caller's errors brought it); otherwise
\* it has "201" with the $ref body (and "204" only if errors brought it).
C3_SuccessResponse ==
    Done =>
        LET r == Doc.responses
        IN  IF Effective \in DeletedNamed
            THEN /\ "204" \in DOMAIN r
                 /\ "content" \notin DOMAIN r["204"]
                 /\ "201" \in DOMAIN r => 201 \in DOMAIN args.errors
            ELSE /\ "201" \in DOMAIN r
                 /\ r["201"] = Body201(Effective)
                 /\ "204" \in DOMAIN r => 204 \in DOMAIN args.errors

\* C3 amended: as C3, except that when errors has the key 201 the "201" entry of
\* a non-"deleted" schema is {"description": errors[201]} instead of the $ref body.
C3_SuccessResponseUnlessOverridden ==
    Done =>
        LET r == Doc.responses
        IN  IF Effective \in DeletedNamed
            THEN /\ "204" \in DOMAIN r
                 /\ "content" \notin DOMAIN r["204"]
                 /\ "201" \in DOMAIN r => 201 \in DOMAIN args.errors
            ELSE /\ "201" \in DOMAIN r
                 /\ r["201"] = IF 201 \in DOMAIN args.errors
                               THEN [description |-> args.errors[201]]
                               ELSE Body201(Effective)
                 /\ "204" \in DOMAIN r => 204 \in DOMAIN args.errors

C3_Witness ==
    /\ Done
    /\ Effective = "BookSchema"
    /\ 201 \in DOMAIN args.errors
    /\ Doc.responses["201"] = [description |-> "made"]

\* C4: every code of errors is in responses as {"description": errors[code]},
\* also where the builder had put its own entry; every other key is the
\* builder's success entry, unchanged; without errors responses is that entry alone.
C4_ErrorsTakePrecedence ==
    Done =>
        LET r == Doc.responses
            success == IF Effective \in DeletedNamed
                       THEN ("204" :> [description |-> "Resource was deleted"])
                       ELSE ("201" :> Body201(Effective))
            keys == {CodeKey[c] : c \in DOMAIN args.errors}
        IN  /\ \A c \in DOMAIN args.errors :
                    /\ CodeKey[c] \in DOMAIN r
                    /\ r[CodeKey[c]] = [description |-> args.errors[c]]
            /\ DOMAIN r = keys \cup DOMAIN success
            /\ \A k \in DOMAIN r \ keys : r[k] = success[k]
            /\ args.errors = EmptyDict => r = success

C4_Witness ==
    /\ Done
    /\ Effective = "BookDeletedSchema"
    /\ 204 \in DOMAIN args.errors
    /\ Doc.responses = ("204" :> [description |-> "gone"])

\* C5: the parameters of the finished document end with one entry per header,
\* in the caller's order, each with in = "header"; before them come only the
\* kept path-id parameter and the kept additional_parameters.
C5_HeadersLast ==
    Done =>
        LET P == Doc.parameters
            n == Len(args.headers)
            k == (IF args.request_schema \in KeepsPathId THEN 1 ELSE 0)
                    + Len(KeptAdditionalNames)
        IN  /\ Len(P) = k + n
            /\ \A i \in 1..n : P[k + i] = [name |-> HeaderNames[i], in_ |-> "header"]

C5_Witness ==
    /\ Done
    /\ args.request_schema = "BookSchema"
    /\ args.additional_parameters = <<RawIdPath>>
    /\ args.headers = <<ObjXFoo>>
    /\ Doc.parameters[3] = [name |-> "X-Foo", in_ |-> "header"]

\* C6: a request schema with a non-empty url_id_field and no "create" in its
\* name gives a first parameter named by that field, in the path; any other
\* request schema gives only the caller's additional_parameters, then headers.
\* The response schema plays no part.
C6_PathParameterPolicy ==
    Done =>
        IF args.request_schema \in KeepsPathId
        THEN /\ Len(Doc.parameters) >= 1
             /\ Doc.parameters[1] = [name |-> "id", in_ |-> "path"]
             /\ ParameterNames = <<"id">> \o KeptAdditionalNames \o HeaderNames
        ELSE ParameterNames = KeptAdditionalNames \o HeaderNames

C6_Witness ==
    /\ Done
    /\ args.request_schema = "BookCreateSchema"
    /\ args.response_schema = "BookSchema"
    /\ args.additional_parameters = <<RawIdPath>>
    /\ args.headers = <<RawXFoo>>
    /\ ParameterNames = <<"id", "X-Foo">>

\* C7: the names of the parameters of the finished document are pairwise distinct.
C7_NamesUnique ==
    Done => \A i, j \in 1..Len(Doc.parameters) :
                i # j => Doc.parameters[i].name # Doc.parameters[j].name

\* C8: a call without response_schema gives a document that the same call with
\* response_schema = request_schema can give (the two differ at most in the
\* order of tags), with the "201" body referring to the request schema.
C8_ResponseDefaultsToRequest ==
    (Done /\ args.response_schema = None) =>
        LET same == [args EXCEPT !.response_schema = args.request_schema]
        IN  /\ \E tags \in TagOrders(same) : Doc = OpenApiData(same, tags)
            /\ Range(Doc.tags) = DeclaredTags[args.request_schema]
            /\ (args.request_schema \notin DeletedNamed /\ args.errors = EmptyDict)
                    => Doc.responses = ("201" :> Body201(args.request_schema))

C8_Witness ==
    /\ Done
    /\ args.response_schema = None
    /\ args.operation_id = None
    /\ args.request_schema = "BookSchema"
    /\ Doc.operationId = "post_book"
    /\ Doc.responses = ("201" :> Body201("BookSchema"))

\* A raw mapping of the call that cannot be coerced into a ParameterObject.
HasMalformedEntry ==
    \/ \E i \in 1..Len(args.additional_parameters) :
            args.additional_parameters[i] = RawNoName
    \/ \E i \in 1..Len(args.headers) : args.headers[i] = RawNoName

\* C9: a call with a raw mapping that cannot be coerced raises; it returns no
\* decorator, so the attachment hook does not run and the route table stays
\* as it was.
C9_MalformedRaises ==
    (pc # "idle" /\ HasMalformedEntry) =>
        /\ pc = "raised"
        /\ returned = <<>>
        /\ routes = EmptyDict

C9_Witness ==
    /\ pc = "raised"
    /\ args.additional_parameters = <<>>
    /\ args.headers = <<ObjXFoo, RawNoName>>
    /\ routes = EmptyDict

\* C10: tags, as a set, is the union of what the request schema and the
\* response schema declare, and the list holds no tag twice.
C10_TagsUnion ==
    Done =>
        /\ Range(Doc.tags) = DeclaredTags[args.request_schema] \cup DeclaredTags[Effective]
        /\ Len(Doc.tags) = Cardinality(Range(Doc.tags))

C10_Witness ==
    /\ Done
    /\ args.request_schema = "BookDeletedSchema"
    /\ args.response_schema = "BookCreateSchema"
    /\ Doc.tags = <<"Books", "Admin">>

====
